---- MODULE Spec2Model ----
(***************************************************************************)
(* State-machine model of rt_wifi_scanner (src/main.c): the process entry  *)
(* (main, INIT_TASK), the bounded SSID queue (queueAdd, queuePop), the     *)
(* periodic producer READ_TASK (updateInterval, readSSID) and the consumer *)
(* STORE_TASK (storeSSIDs, writeToFile), with the pthread mutex and the    *)
(* two condition variables that connect them.                              *)
(*                                                                         *)
(* Time is a struct timespec [sec, nsec]; the monotonic clock advances in  *)
(* one-second steps, at any point of the run.  Timestamps are f32 values,  *)
(* kept in units of half a second (the integer h stands for h/2 seconds).  *)
(***************************************************************************)
EXTENDS Integers, Sequences, FiniteSets, TLC

(***************************** program constants ***************************)

NSEC_PER_SEC == 1000000000

BUFFER_SIZE == 32

(* exit() arguments of main and INIT_TASK *)
EXIT_MLOCK == -2

EXIT_AFFINITY == -3

EXIT_ARGC == -4

(******************************* model bounds ******************************)

(* number of iterations of READ_TASK's loop in which the scanner can find  *)
(* a network                                                               *)
MaxCycles == 2

(* number of one-second steps the monotonic clock takes *)
MaxTicks == 1

(* number of times fopen("ssids.txt", "w") fails *)
MaxWriteFails == 1

(* number of entries captured when storeSSIDs is followed on its own *)
MaxCaptured == 4

(******************************** inputs ***********************************)

HalfSec == NSEC_PER_SEC \div 2

(* number of lines of the longest scanner output *)
BurstLen == BUFFER_SIZE + 8

(* 2^24: an f32 has 24 bits of mantissa *)
TwoTo24 == 16777216

(* lines as fgets returns them: sequences of characters *)
NetA == <<"A">>

NetB == <<"B">>

Sentinel == <<"x", "0", "0">>

SentinelB == <<"x", "0", "0", "B">>

(* a scanner output longer than the queue: A/B alternating, a sentinel     *)
(* line at every position 3 mod 8                                          *)
Burst == [i \in 1..BurstLen |->
            IF i % 16 = 3 THEN Sentinel
            ELSE IF i % 16 = 11 THEN SentinelB
            ELSE IF i % 2 = 1 THEN NetA ELSE NetB]

(* what popen("/bin/bash searchWifi.sh") can deliver, as the sequence of   *)
(* lines fgets reads from it                                               *)
ShortOutputs == { <<Sentinel>>, <<NetA, NetA>> }

ScanOutputs == ShortOutputs \cup { Burst }

(* the scanner finds no network *)
QuietOutputs == { <<Sentinel>> }

(* argc as the process is started; argv[1] as strtoul parses it (seconds)  *)
Argcs == {1, 2, 3}

PeriodArgs == {0, 1}

(* CLOCK_MONOTONIC when the process starts: the half-second before 2^23    *)
(* seconds, where an f32 stops holding every half-second exactly           *)
ClockStarts == { [sec |-> (TwoTo24 \div 2) - 1, nsec |-> HalfSec] }

(* CLOCK_MONOTONIC after 2^24 seconds of uptime, where an f32 holds every  *)
(* other second only: the clock's next step leaves the timestamp as it is  *)
CoarseClockStarts == { [sec |-> TwoTo24, nsec |-> 0] }

(***************************** time and f32 ********************************)

(* a struct timespec in half-seconds since the clock's origin *)
Halves(t) == 2 * t.sec + t.nsec \div HalfSec

(* the monotonic clock one second later *)
ClockStep(t) == [sec |-> t.sec + 1, nsec |-> t.nsec]

(* round-to-nearest-even of the value h/2 onto the f32 grid: every half    *)
(* below 2^23, every integer below 2^24, every even integer below 2^25     *)
F32(h) ==
  LET g == IF h < TwoTo24 THEN 1 ELSE IF h < 2 * TwoTo24 THEN 2 ELSE 4
      lo == (h \div g) * g
      r == h - lo
  IN IF 2 * r < g THEN lo
     ELSE IF 2 * r > g THEN lo + g
     ELSE IF (lo \div g) % 2 = 0 THEN lo ELSE lo + g

(* getCurrentTimestamp: (f32)tv_sec + tv_nsec / (f32)1e9, every operation  *)
(* rounded to f32                                                          *)
getCurrentTimestamp(t) == F32(F32(2 * t.sec) + F32(t.nsec \div HalfSec))

(* task_timer after updateInterval(task_timer, interval) *)
RECURSIVE Normalize(_)
Normalize(t) ==
  IF t.nsec >= NSEC_PER_SEC
    THEN Normalize([sec |-> t.sec + 1, nsec |-> t.nsec - NSEC_PER_SEC])
    ELSE t

updateInterval(task_timer, interval) ==
  Normalize([task_timer EXCEPT !.nsec = task_timer.nsec + interval])

(* a sleep that returns at once, whatever the deadline *)
DeadlineReached_AtOnce(now, deadline) == now.sec >= 0

(* clock_nanosleep(TIMER_ABSTIME) returns once the clock has reached the   *)
(* deadline                                                                *)
DeadlineReached(now, deadline) ==
  \/ now.sec > deadline.sec
  \/ now.sec = deadline.sec /\ now.nsec >= deadline.nsec

(********************************* queue ***********************************)

Slots == 0..(BUFFER_SIZE - 1)

(* the queue part of struct SSIDQueue as INIT_TASK leaves it (the buffers  *)
(* are static storage: zero-filled)                                        *)
InitQueue ==
  [ssid_buffer |-> [i \in Slots |-> <<>>],
   timestamp_buffer |-> [i \in Slots |-> 0],
   head |-> 0, tail |-> 0, full |-> 0, empty |-> 1]

(* queueAdd with the slot written after tail was advanced *)
queueAdd_StoreAfterAdvance(q, ssid, timestamp) ==
  LET t1 == q.tail + 1
      t2 == IF t1 = BUFFER_SIZE THEN 0 ELSE t1
  IN [q EXCEPT !.ssid_buffer[t2] = ssid,
               !.timestamp_buffer[t2] = timestamp,
               !.tail = t2,
               !.full = IF t2 = q.head THEN 1 ELSE q.full,
               !.empty = 0]

queueAdd(q, ssid, timestamp) ==
  LET t1 == q.tail + 1
      t2 == IF t1 = BUFFER_SIZE THEN 0 ELSE t1
  IN [q EXCEPT !.ssid_buffer[q.tail] = ssid,
               !.timestamp_buffer[q.tail] = timestamp,
               !.tail = t2,
               !.full = IF t2 = q.head THEN 1 ELSE q.full,
               !.empty = 0]

(* queuePop that leaves the full flag as it was *)
queuePop_FullNotCleared(q) ==
  LET h1 == q.head + 1
      h2 == IF h1 = BUFFER_SIZE THEN 0 ELSE h1
  IN [queue |-> [q EXCEPT !.head = h2,
                          !.empty = IF h2 = q.tail THEN 1 ELSE q.empty],
      ssid |-> q.ssid_buffer[q.head],
      timestamp |-> q.timestamp_buffer[q.head]]

(* queuePop: the queue afterwards, and the two out-parameters *)
queuePop(q) ==
  LET h1 == q.head + 1
      h2 == IF h1 = BUFFER_SIZE THEN 0 ELSE h1
  IN [queue |-> [q EXCEPT !.head = h2,
                          !.empty = IF h2 = q.tail THEN 1 ELSE q.empty,
                          !.full = 0],
      ssid |-> q.ssid_buffer[q.head],
      timestamp |-> q.timestamp_buffer[q.head]]

(* strncmp(ssid, "x00", 3): zero exactly when the line starts with x00 *)
StartsWithX00(ssid) ==
  /\ Len(ssid) >= 3
  /\ ssid[1] = "x" /\ ssid[2] = "0" /\ ssid[3] = "0"

(* readSSID's condition when one slot is always left free *)
Enqueues_OneSlotFree(q, ssid) ==
  /\ q.full = 0
  /\ (q.tail + 1) % BUFFER_SIZE # q.head
  /\ ~StartsWithX00(ssid)

(* readSSID's condition without the test of the full flag *)
Enqueues_NoFullTest(q, ssid) == ~StartsWithX00(ssid)

(* the condition of readSSID's if: the line is enqueued *)
Enqueues(q, ssid) == q.full = 0 /\ ~StartsWithX00(ssid)

(* one iteration of readSSID's while loop on the line fgets returned: the  *)
(* queue afterwards, and the arguments of the queueAdd calls it made       *)
readLine(q, ssid, now) ==
  IF Enqueues(q, ssid)
    THEN [queue |-> queueAdd(q, ssid, getCurrentTimestamp(now)),
          calls |-> << <<ssid, getCurrentTimestamp(now)>> >>]
    ELSE [queue |-> q, calls |-> <<>>]

(******************************** history **********************************)

InitHistory ==
  [ssid_num |-> 0, ssids |-> <<>>, num_timestamps |-> <<>>,
   timestamps |-> <<>>, latencies |-> <<>>]

(* the entries storeSSIDs' for loop stops at: same SSID, and a last        *)
(* timestamp other than the dequeued one                                   *)
Matches(h, ssid, timestamp) ==
  { i \in 1..h.ssid_num :
      /\ h.ssids[i] = ssid
      /\ h.timestamps[i][h.num_timestamps[i]] # timestamp }

Min(S) == CHOOSE x \in S : \A y \in S : x <= y

(* the aggregation writing over the identifier's last pair *)
aggregate_OverwritesLast(h, ssid, timestamp, now) ==
  LET M == Matches(h, ssid, timestamp)
      latency == getCurrentTimestamp(now) - timestamp
  IN IF M # {}
       THEN LET i == Min(M)
            IN [h EXCEPT !.timestamps[i][h.num_timestamps[i]] = timestamp,
                         !.latencies[i][h.num_timestamps[i]] = latency]
       ELSE [ssid_num |-> h.ssid_num + 1,
             ssids |-> Append(h.ssids, ssid),
             num_timestamps |-> Append(h.num_timestamps, 1),
             timestamps |-> Append(h.timestamps, <<timestamp>>),
             latencies |-> Append(h.latencies, <<latency>>)]

(* the aggregation when the loop never finds the identifier *)
aggregate_NeverFound(h, ssid, timestamp, now) ==
  LET latency == getCurrentTimestamp(now) - timestamp
  IN [ssid_num |-> h.ssid_num + 1,
      ssids |-> Append(h.ssids, ssid),
      num_timestamps |-> Append(h.num_timestamps, 1),
      timestamps |-> Append(h.timestamps, <<timestamp>>),
      latencies |-> Append(h.latencies, <<latency>>)]

(* the aggregation with the latency taken as capture minus reading *)
aggregate_LatencyReversed(h, ssid, timestamp, now) ==
  LET M == Matches(h, ssid, timestamp)
      latency == timestamp - getCurrentTimestamp(now)
  IN IF M # {}
       THEN LET i == Min(M)
            IN [h EXCEPT !.num_timestamps[i] = @ + 1,
                         !.timestamps[i] = Append(@, timestamp),
                         !.latencies[i] = Append(@, latency)]
       ELSE [ssid_num |-> h.ssid_num + 1,
             ssids |-> Append(h.ssids, ssid),
             num_timestamps |-> Append(h.num_timestamps, 1),
             timestamps |-> Append(h.timestamps, <<timestamp>>),
             latencies |-> Append(h.latencies, <<latency>>)]

(* the part of storeSSIDs after queuePop: the history after (ssid,         *)
(* timestamp) was dequeued with the clock at now                           *)
aggregate(h, ssid, timestamp, now) ==
  LET M == Matches(h, ssid, timestamp)
      latency == getCurrentTimestamp(now) - timestamp
  IN IF M # {}
       THEN LET i == Min(M)
            IN [h EXCEPT !.num_timestamps[i] = @ + 1,
                         !.timestamps[i] = Append(@, timestamp),
                         !.latencies[i] = Append(@, latency)]
       ELSE [ssid_num |-> h.ssid_num + 1,
             ssids |-> Append(h.ssids, ssid),
             num_timestamps |-> Append(h.num_timestamps, 1),
             timestamps |-> Append(h.timestamps, <<timestamp>>),
             latencies |-> Append(h.latencies, <<latency>>)]

(* storeSSIDs: queuePop, then the aggregation of what it returned *)
storeSSIDs(q, h, now) ==
  LET p == queuePop(q)
  IN [queue |-> p.queue,
      history |-> aggregate(h, p.ssid, p.timestamp, now),
      ssid |-> p.ssid,
      timestamp |-> p.timestamp]

(* writeToFile leaving its loop after the first entry *)
writeToFile_FirstEntryOnly(h, old, opened) ==
  IF opened
    THEN [i \in 1..(IF h.ssid_num > 1 THEN 1 ELSE h.ssid_num) |->
            [ssid |-> h.ssids[i],
             rows |-> [j \in 1..h.num_timestamps[i] |->
                         <<h.timestamps[i][j], h.latencies[i][j]>>]]]
    ELSE old

(* ssids.txt after writeToFile: unchanged when fopen fails, else one       *)
(* section per history entry with its timestamp/latency pairs               *)
writeToFile(h, old, opened) ==
  IF opened
    THEN [i \in 1..h.ssid_num |->
            [ssid |-> h.ssids[i],
             rows |-> [j \in 1..h.num_timestamps[i] |->
                         <<h.timestamps[i][j], h.latencies[i][j]>>]]]
    ELSE old

(********************************* state ***********************************)

VARIABLES
  argc,             \* main's argc
  argv1,            \* strtoul(argv[1], NULL, 0)
  pcMain,           \* position of the main thread
  exit_code,        \* <<the argument of exit()>>, <<>> while running
  rt_setup,         \* the real-time setup steps performed so far
  read_cycle_time,
  read_task_timer,
  clock,            \* CLOCK_MONOTONIC
  ticks,            \* steps the clock has taken
  ssid_queue,       \* head, tail, full, empty and the two buffers
  mutex,            \* owner of ssid_queue.mutex
  history,          \* ssid_num, ssids, num_timestamps, timestamps, latencies
  report,           \* contents of ssids.txt
  pcRead,           \* position of READ_TASK
  pcStore,          \* position of STORE_TASK
  lines,            \* lines of the open pipe that fgets has not read yet
  cycles,           \* iterations of READ_TASK started, up to MaxCycles + 1
  write_fails,      \* failed fopen calls of writeToFile so far
  write_attempts,   \* history: calls of writeToFile so far
  last_failed,      \* history: the last call of writeToFile could not open
  added,            \* history: the pairs passed to queueAdd, in order
  popped,           \* history: the pairs returned by queuePop, in order
  cycle,            \* history: the readSSID call in progress
  scan_log,         \* history: cycle, start and end of the last two scan phases
  task_start        \* history: clock reading READ_TASK synchronized to

vars == <<argc, argv1, pcMain, exit_code, rt_setup, read_cycle_time,
          read_task_timer, clock, ticks, ssid_queue, mutex, history, report,
          pcRead, pcStore, lines, cycles, write_fails, write_attempts,
          last_failed, added, popped,
          cycle, scan_log, task_start>>

mainVars == <<argc, argv1, pcMain, exit_code, rt_setup, read_cycle_time>>

ioVars == <<report, write_fails, write_attempts, last_failed>>

histVars == <<added, popped, cycle, scan_log, task_start>>

(* static storage before INIT_TASK runs: all zero *)
ZeroQueue == [InitQueue EXCEPT !.empty = 0]

(* no readSSID call in progress; prev_failed: the last popen returned NULL *)
NoCycle ==
  [phase |-> "none", failed |-> FALSE, out |-> <<>>, added0 |-> 0,
   popped0 |-> 0, prev_failed |-> FALSE]

ZeroTime == [sec |-> 0, nsec |-> 0]

(* the process as exec leaves it, with the monotonic clock in starts *)
Started(starts) ==
  /\ argc \in Argcs
  /\ argv1 \in PeriodArgs
  /\ clock \in starts
  /\ pcMain = "mlockall"
  /\ exit_code = <<>>
  /\ rt_setup = {}
  /\ read_cycle_time = 0
  /\ read_task_timer = ZeroTime
  /\ ticks = 0
  /\ ssid_queue = ZeroQueue
  /\ mutex = "free"
  /\ history = InitHistory
  /\ report = <<>>
  /\ pcRead = "idle"
  /\ pcStore = "idle"
  /\ lines = <<>>
  /\ cycles = 0
  /\ write_fails = 0
  /\ write_attempts = 0
  /\ last_failed = FALSE
  /\ added = <<>>
  /\ popped = <<>>
  /\ cycle = NoCycle
  /\ scan_log = <<>>
  /\ task_start = ZeroTime

Init == Started(ClockStarts)

(******************************* main thread *******************************)

(* main: mlockall(MCL_CURRENT|MCL_FUTURE), exit(-2) when it fails *)
Mlockall ==
  /\ pcMain = "mlockall"
  /\ \E ok \in BOOLEAN :
       IF ok
         THEN /\ rt_setup' = rt_setup \cup {"mlockall"}
              /\ pcMain' = "prefaultStack"
              /\ UNCHANGED exit_code
         ELSE /\ exit_code' = <<EXIT_MLOCK>>
              /\ pcMain' = "exited"
              /\ UNCHANGED rt_setup
  /\ UNCHANGED <<argc, argv1, read_cycle_time, read_task_timer, clock, ticks,
                 ssid_queue, mutex, history, ioVars, pcRead, pcStore, lines,
                 cycles>>
  /\ UNCHANGED histVars

PrefaultStack ==
  /\ pcMain = "prefaultStack"
  /\ rt_setup' = rt_setup \cup {"prefaultStack"}
  /\ pcMain' = "sched_setaffinity"
  /\ UNCHANGED <<argc, argv1, exit_code, read_cycle_time, read_task_timer, clock,
                 ticks, ssid_queue, mutex, history, ioVars, pcRead, pcStore,
                 lines, cycles>>
  /\ UNCHANGED histVars

(* main going on to INIT_TASK after a failed sched_setaffinity *)
SchedSetaffinity_GoesOn ==
  /\ pcMain = "sched_setaffinity"
  /\ \E ok \in BOOLEAN :
       IF ok
         THEN /\ rt_setup' = rt_setup \cup {"sched_setaffinity"}
              /\ UNCHANGED exit_code
         ELSE /\ exit_code' = <<EXIT_AFFINITY>>
              /\ UNCHANGED rt_setup
  /\ pcMain' = "INIT_TASK"
  /\ UNCHANGED <<argc, argv1, read_cycle_time, read_task_timer, clock, ticks,
                 ssid_queue, mutex, history, ioVars, pcRead, pcStore, lines,
                 cycles>>
  /\ UNCHANGED histVars

(* main: sched_setaffinity, exit(-3) when it fails *)
SchedSetaffinity ==
  /\ pcMain = "sched_setaffinity"
  /\ \E ok \in BOOLEAN :
       IF ok
         THEN /\ rt_setup' = rt_setup \cup {"sched_setaffinity"}
              /\ pcMain' = "INIT_TASK"
              /\ UNCHANGED exit_code
         ELSE /\ exit_code' = <<EXIT_AFFINITY>>
              /\ pcMain' = "exited"
              /\ UNCHANGED rt_setup
  /\ UNCHANGED <<argc, argv1, read_cycle_time, read_task_timer, clock, ticks,
                 ssid_queue, mutex, history, ioVars, pcRead, pcStore, lines,
                 cycles>>
  /\ UNCHANGED histVars

(* what INIT_TASK does with argc: <<the exit code>>, or <<>> to go on *)
ArgcCheck(n) == IF n # 2 THEN <<EXIT_ARGC>> ELSE <<>>

INIT_TASK ==
  /\ pcMain = "INIT_TASK"
  /\ IF ArgcCheck(argc) # <<>>
       THEN /\ exit_code' = ArgcCheck(argc)
            /\ pcMain' = "exited"
            /\ UNCHANGED <<read_cycle_time, ssid_queue>>
       ELSE /\ read_cycle_time' = argv1 * NSEC_PER_SEC
            /\ ssid_queue' = [ssid_queue EXCEPT !.empty = 1, !.full = 0,
                                                !.head = 0, !.tail = 0]
            /\ pcMain' = "create_read"
            /\ UNCHANGED exit_code
  /\ UNCHANGED <<argc, argv1, rt_setup, read_task_timer, clock, ticks, mutex,
                 history, ioVars, pcRead, pcStore, lines, cycles>>
  /\ UNCHANGED histVars

(* pthread_create(&thread_1, ..., READ_TASK, NULL) *)
CreateRead ==
  /\ pcMain = "create_read"
  /\ pcMain' = "create_store"
  /\ pcRead' = "clock_gettime"
  /\ UNCHANGED <<argc, argv1, exit_code, rt_setup, read_cycle_time,
                 read_task_timer, clock, ticks, ssid_queue, mutex, history,
                 ioVars, pcStore, lines, cycles>>
  /\ UNCHANGED histVars

(* pthread_create(&thread_2, ..., STORE_TASK, NULL); main then blocks in   *)
(* pthread_join                                                            *)
CreateStore ==
  /\ pcMain = "create_store"
  /\ pcMain' = "join"
  /\ pcStore' = "lock"
  /\ UNCHANGED <<argc, argv1, exit_code, rt_setup, read_cycle_time,
                 read_task_timer, clock, ticks, ssid_queue, mutex, history,
                 ioVars, pcRead, lines, cycles>>
  /\ UNCHANGED histVars

(* CLOCK_MONOTONIC advances wherever main and the tasks are: before the    *)
(* tasks exist, between two lines of one scanner output, while a task      *)
(* holds or waits for the mutex                                            *)
Tick ==
  /\ ticks < MaxTicks
  /\ clock' = ClockStep(clock)
  /\ ticks' = ticks + 1
  /\ UNCHANGED mainVars
  /\ UNCHANGED <<read_task_timer, ssid_queue, mutex, history, ioVars, pcRead,
                 pcStore, lines, cycles>>
  /\ UNCHANGED histVars

(******************************** READ_TASK ********************************)

(* the log of scan phases keeps the last two *)
Logged(log, e) == IF Len(log) < 2 THEN Append(log, e) ELSE <<log[2], e>>

readFrame == <<read_cycle_time, argc, argv1, pcMain, exit_code, rt_setup,
               history, ioVars, pcStore, popped, ticks, clock>>

(* what the scanner can deliver in this cycle: the long output is followed *)
(* in READ_TASK's first scan, and after MaxCycles scans no network is      *)
(* found any more                                                          *)
Outputs ==
  IF cycles = 1 THEN ScanOutputs
  ELSE IF cycles <= MaxCycles THEN ShortOutputs
  ELSE QuietOutputs

(* clock_gettime(CLOCK_MONOTONIC, &read_task_timer) *)
R_ClockGettime ==
  /\ pcRead = "clock_gettime"
  /\ read_task_timer' = clock
  /\ task_start' = clock
  /\ pcRead' = "updateInterval"
  /\ UNCHANGED readFrame
  /\ UNCHANGED <<ssid_queue, mutex, lines, cycles, added, cycle, scan_log>>

(* the next deadline taken from the current time instead of the last      *)
(* deadline                                                                *)
R_UpdateInterval_FromNow ==
  /\ pcRead = "updateInterval"
  /\ cycles < MaxCycles
  /\ read_task_timer' = updateInterval(clock, read_cycle_time)
  /\ cycles' = cycles + 1
  /\ pcRead' = "lock"
  /\ UNCHANGED readFrame
  /\ UNCHANGED <<ssid_queue, mutex, lines, added, cycle, scan_log, task_start>>

(* top of the loop: updateInterval(&read_task_timer, read_cycle_time), in   *)
(* the first MaxCycles iterations                                          *)
R_UpdateInterval ==
  /\ pcRead = "updateInterval"
  /\ cycles < MaxCycles
  /\ read_task_timer' = updateInterval(read_task_timer, read_cycle_time)
  /\ cycles' = cycles + 1
  /\ pcRead' = "lock"
  /\ UNCHANGED readFrame
  /\ UNCHANGED <<ssid_queue, mutex, lines, added, cycle, scan_log, task_start>>

(* top of the loop in the iterations after them: while (1) has no end; the  *)
(* count stays at MaxCycles + 1                                            *)
R_UpdateIntervalLater ==
  /\ pcRead = "updateInterval"
  /\ cycles >= MaxCycles
  /\ read_task_timer' = updateInterval(read_task_timer, read_cycle_time)
  /\ cycles' = MaxCycles + 1
  /\ pcRead' = "lock"
  /\ UNCHANGED readFrame
  /\ UNCHANGED <<ssid_queue, mutex, lines, added, cycle, scan_log, task_start>>

(* a lock that is taken whoever holds it *)
R_Lock_NoExclusion ==
  /\ pcRead \in {"lock", "relock"}
  /\ mutex' = "READ_TASK"
  /\ pcRead' = "check"
  /\ UNCHANGED readFrame
  /\ UNCHANGED <<read_task_timer, ssid_queue, lines, cycles, added, cycle,
                 scan_log, task_start>>

(* pthread_mutex_lock, and pthread_cond_wait's re-acquisition *)
R_Lock ==
  /\ pcRead \in {"lock", "relock"}
  /\ mutex = "free"
  /\ mutex' = "READ_TASK"
  /\ pcRead' = "check"
  /\ UNCHANGED readFrame
  /\ UNCHANGED <<read_task_timer, ssid_queue, lines, cycles, added, cycle,
                 scan_log, task_start>>

(* while (ssid_queue.full) pthread_cond_wait(&not_full, &mutex) *)
R_WaitNotFull ==
  /\ pcRead = "check"
  /\ ssid_queue.full # 0
  /\ mutex' = "free"
  /\ pcRead' = "wait"
  /\ UNCHANGED readFrame
  /\ UNCHANGED <<read_task_timer, ssid_queue, lines, cycles, added, cycle,
                 scan_log, task_start>>

(* POSIX lets pthread_cond_wait return without a signal *)
R_SpuriousWake ==
  /\ pcRead = "wait"
  /\ pcRead' = "relock"
  /\ UNCHANGED readFrame
  /\ UNCHANGED <<read_task_timer, ssid_queue, mutex, lines, cycles, added,
                 cycle, scan_log, task_start>>

(* readSSID without the test of popen's result: the loop runs on a stream *)
(* that was never opened                                                   *)
R_Popen_NoNullTest ==
  /\ pcRead = "check"
  /\ ssid_queue.full = 0
  /\ \E ok \in BOOLEAN :
       IF ok
         THEN \E out \in Outputs :
                /\ lines' = out
                /\ pcRead' = "fgets"
                /\ cycle' = [cycle EXCEPT !.phase = "scan", !.failed = FALSE,
                                          !.out = out,
                                          !.added0 = Len(added),
                                          !.popped0 = Len(popped)]
                /\ scan_log' = Logged(scan_log,
                                      [n |-> cycles, start |-> Halves(clock),
                                       end |-> -1])
         ELSE /\ lines' = <<NetA>>
              /\ pcRead' = "fgets"
              /\ cycle' = [cycle EXCEPT !.phase = "scan", !.failed = TRUE,
                                        !.out = <<NetA>>,
                                        !.added0 = Len(added),
                                        !.popped0 = Len(popped)]
              /\ scan_log' = Logged(scan_log,
                                    [n |-> cycles, start |-> Halves(clock),
                                     end |-> -1])
  /\ UNCHANGED readFrame
  /\ UNCHANGED <<read_task_timer, ssid_queue, mutex, cycles, added, task_start>>

(* the loop is left with the queue not full: readSSID's popen *)
R_Popen ==
  /\ pcRead = "check"
  /\ ssid_queue.full = 0
  /\ \E ok \in BOOLEAN :
       IF ok
         THEN \E out \in Outputs :
                /\ lines' = out
                /\ pcRead' = "fgets"
                /\ cycle' = [cycle EXCEPT !.phase = "scan", !.failed = FALSE,
                                          !.out = out,
                                          !.added0 = Len(added),
                                          !.popped0 = Len(popped)]
                /\ scan_log' = Logged(scan_log,
                                      [n |-> cycles, start |-> Halves(clock),
                                       end |-> -1])
         ELSE /\ lines' = <<>>
              /\ pcRead' = "unlock"
              /\ cycle' = [cycle EXCEPT !.phase = "scan", !.failed = TRUE,
                                        !.out = <<>>,
                                        !.added0 = Len(added),
                                        !.popped0 = Len(popped)]
              /\ scan_log' = Logged(scan_log,
                                    [n |-> cycles, start |-> Halves(clock),
                                     end |-> Halves(clock)])
  /\ UNCHANGED readFrame
  /\ UNCHANGED <<read_task_timer, ssid_queue, mutex, cycles, added, task_start>>

(* fgets returned a line: one iteration of readSSID's loop *)
R_FgetsLine ==
  /\ pcRead = "fgets"
  /\ lines # <<>>
  /\ LET r == readLine(ssid_queue, Head(lines), clock)
     IN /\ ssid_queue' = r.queue
        /\ added' = added \o r.calls
  /\ lines' = Tail(lines)
  /\ UNCHANGED readFrame
  /\ UNCHANGED <<read_task_timer, mutex, pcRead, cycles, cycle, scan_log,
                 task_start>>

(* fgets returned NULL: pclose, readSSID returns *)
R_FgetsEof ==
  /\ pcRead = "fgets"
  /\ lines = <<>>
  /\ pcRead' = "unlock"
  /\ scan_log' = [scan_log EXCEPT ![Len(scan_log)].end = Halves(clock)]
  /\ UNCHANGED readFrame
  /\ UNCHANGED <<read_task_timer, ssid_queue, mutex, lines, cycles, added,
                 cycle, task_start>>

(* pthread_mutex_unlock *)
R_Unlock ==
  /\ pcRead = "unlock"
  /\ mutex' = "free"
  /\ pcRead' = "signal"
  /\ cycle' = [NoCycle EXCEPT !.prev_failed = cycle.failed]
  /\ UNCHANGED readFrame
  /\ UNCHANGED <<read_task_timer, ssid_queue, lines, cycles, added, scan_log,
                 task_start>>

(* pthread_cond_signal(&not_empty): wakes STORE_TASK if it waits *)
R_Signal ==
  /\ pcRead = "signal"
  /\ pcRead' = "clock_nanosleep"
  /\ pcStore' = IF pcStore = "wait" THEN "relock" ELSE pcStore
  /\ UNCHANGED <<read_cycle_time, argc, argv1, pcMain, exit_code, rt_setup,
                 history, ioVars, popped, ticks, clock>>
  /\ UNCHANGED <<read_task_timer, ssid_queue, mutex, lines, cycles, added,
                 cycle, scan_log, task_start>>

(* clock_nanosleep(CLOCK_MONOTONIC, TIMER_ABSTIME, &read_task_timer) *)
R_ClockNanosleep ==
  /\ pcRead = "clock_nanosleep"
  /\ DeadlineReached(clock, read_task_timer)
  /\ pcRead' = "updateInterval"
  /\ UNCHANGED readFrame
  /\ UNCHANGED <<read_task_timer, ssid_queue, mutex, lines, cycles, added,
                 cycle, scan_log, task_start>>

(******************************* STORE_TASK ********************************)

storeFrame == <<read_cycle_time, argc, argv1, pcMain, exit_code, rt_setup,
                read_task_timer, lines, cycles, added, cycle, scan_log,
                task_start, ticks, clock>>

S_Lock ==
  /\ pcStore \in {"lock", "relock"}
  /\ mutex = "free"
  /\ mutex' = "STORE_TASK"
  /\ pcStore' = "check"
  /\ UNCHANGED storeFrame
  /\ UNCHANGED <<ssid_queue, history, ioVars, pcRead, popped>>

(* while (ssid_queue.empty) pthread_cond_wait(&not_empty, &mutex) *)
S_WaitNotEmpty ==
  /\ pcStore = "check"
  /\ ssid_queue.empty # 0
  /\ mutex' = "free"
  /\ pcStore' = "wait"
  /\ UNCHANGED storeFrame
  /\ UNCHANGED <<ssid_queue, history, ioVars, pcRead, popped>>

S_SpuriousWake ==
  /\ pcStore = "wait"
  /\ pcStore' = "relock"
  /\ UNCHANGED storeFrame
  /\ UNCHANGED <<ssid_queue, mutex, history, ioVars, pcRead, popped>>

(* storeSSIDs() called without the test of the empty flag *)
S_StoreSSIDs_NoEmptyTest ==
  /\ pcStore = "check"
  /\ LET r == storeSSIDs(ssid_queue, history, clock)
     IN /\ ssid_queue' = r.queue
        /\ history' = r.history
        /\ popped' = Append(popped, <<r.ssid, r.timestamp>>)
  /\ pcStore' = "unlock"
  /\ UNCHANGED storeFrame
  /\ UNCHANGED <<mutex, ioVars, pcRead>>

(* the loop is left with the queue not empty: storeSSIDs() *)
S_StoreSSIDs ==
  /\ pcStore = "check"
  /\ ssid_queue.empty = 0
  /\ LET r == storeSSIDs(ssid_queue, history, clock)
     IN /\ ssid_queue' = r.queue
        /\ history' = r.history
        /\ popped' = Append(popped, <<r.ssid, r.timestamp>>)
  /\ pcStore' = "unlock"
  /\ UNCHANGED storeFrame
  /\ UNCHANGED <<mutex, ioVars, pcRead>>

S_Unlock ==
  /\ pcStore = "unlock"
  /\ mutex' = "free"
  /\ pcStore' = "signal"
  /\ UNCHANGED storeFrame
  /\ UNCHANGED <<ssid_queue, history, ioVars, pcRead, popped>>

(* STORE_TASK without the pthread_cond_signal(&not_full) *)
S_Signal_Missing ==
  /\ pcStore = "signal"
  /\ pcStore' = "writeToFile"
  /\ UNCHANGED pcRead
  /\ UNCHANGED storeFrame
  /\ UNCHANGED <<ssid_queue, mutex, history, ioVars, popped>>

(* STORE_TASK going back for the next entry, without writeToFile, while   *)
(* the queue holds more                                                    *)
S_Signal_DrainsFirst ==
  /\ pcStore = "signal"
  /\ pcStore' = IF ssid_queue.empty = 0 THEN "lock" ELSE "writeToFile"
  /\ pcRead' = IF pcRead = "wait" THEN "relock" ELSE pcRead
  /\ UNCHANGED storeFrame
  /\ UNCHANGED <<ssid_queue, mutex, history, ioVars, popped>>

(* pthread_cond_signal(&not_full): wakes READ_TASK if it waits *)
S_Signal ==
  /\ pcStore = "signal"
  /\ pcStore' = "writeToFile"
  /\ pcRead' = IF pcRead = "wait" THEN "relock" ELSE pcRead
  /\ UNCHANGED storeFrame
  /\ UNCHANGED <<ssid_queue, mutex, history, ioVars, popped>>

S_WriteToFile ==
  /\ pcStore = "writeToFile"
  /\ \E opened \in BOOLEAN :
       /\ ~opened => write_fails < MaxWriteFails
       /\ report' = writeToFile(history, report, opened)
       /\ write_fails' = IF opened THEN write_fails ELSE write_fails + 1
       /\ last_failed' = ~opened
  /\ write_attempts' = write_attempts + 1
  /\ pcStore' = "lock"
  /\ UNCHANGED storeFrame
  /\ UNCHANGED <<ssid_queue, mutex, history, pcRead, popped>>

(****************************** specification ******************************)

MainNext ==
  \/ Mlockall
  \/ PrefaultStack
  \/ SchedSetaffinity
  \/ INIT_TASK
  \/ CreateRead
  \/ CreateStore

ReadNext ==
  \/ R_ClockGettime
  \/ R_UpdateInterval
  \/ R_Lock
  \/ R_WaitNotFull
  \/ R_Popen
  \/ R_FgetsLine
  \/ R_FgetsEof
  \/ R_Unlock
  \/ R_Signal
  \/ R_ClockNanosleep

StoreNext ==
  \/ S_Lock
  \/ S_WaitNotEmpty
  \/ S_StoreSSIDs
  \/ S_Unlock
  \/ S_Signal
  \/ S_WriteToFile

Next ==
  \/ MainNext
  \/ ReadNext
  \/ StoreNext
  \/ R_SpuriousWake
  \/ S_SpuriousWake
  \/ Tick

Spec == Init /\ [][Next]_vars

(* READ_TASK followed beyond its first MaxCycles iterations *)
ReadOnNext == ReadNext \/ R_UpdateIntervalLater

(* main, the two tasks with READ_TASK iterating without end, the spurious  *)
(* wake-ups POSIX allows, and the clock                                    *)
FairNext ==
  \/ MainNext
  \/ ReadOnNext
  \/ StoreNext
  \/ R_SpuriousWake
  \/ S_SpuriousWake
  \/ Tick

(* Fair scheduling: main gets to create both tasks, and a task that can    *)
(* run (SCHED_RR at equal priority) eventually runs; spurious wake-ups can *)
(* happen and are not relied on.  The mutex is a                           *)
(* default one (pthread_mutex_init with NULL attributes): a task blocked   *)
(* in pthread_mutex_lock can run only while the mutex is free, and nothing *)
(* hands the mutex over to it.                                             *)
Fairness ==
  /\ WF_vars(MainNext)
  /\ WF_vars(ReadOnNext)
  /\ WF_vars(StoreNext)

(* the fair runs are followed from the late start of the clock *)
FairInit == Started(CoarseClockStarts)

FairSpec == FairInit /\ [][FairNext]_vars /\ Fairness

(************************ storeSSIDs on its own ****************************)

(* storeSSIDs followed on its own: identifiers are captured into the queue  *)
(* with the reading of the clock, storeSSIDs dequeues and aggregates them, *)
(* and the clock steps in between; the tasks and main are left out         *)
aggFrame == <<argc, argv1, pcMain, exit_code, rt_setup, read_cycle_time,
              read_task_timer, mutex, report, pcRead, pcStore, lines, cycles,
              write_fails, write_attempts, last_failed, cycle, scan_log,
              task_start>>

AggInit ==
  /\ argc = 2
  /\ argv1 = 0
  /\ clock \in ClockStarts
  /\ pcMain = "join"
  /\ exit_code = <<>>
  /\ rt_setup = {"mlockall", "prefaultStack", "sched_setaffinity"}
  /\ read_cycle_time = 0
  /\ read_task_timer = ZeroTime
  /\ ticks = 0
  /\ ssid_queue = InitQueue
  /\ mutex = "free"
  /\ history = InitHistory
  /\ report = <<>>
  /\ pcRead = "idle"
  /\ pcStore = "idle"
  /\ lines = <<>>
  /\ cycles = 0
  /\ write_fails = 0
  /\ write_attempts = 0
  /\ last_failed = FALSE
  /\ added = <<>>
  /\ popped = <<>>
  /\ cycle = NoCycle
  /\ scan_log = <<>>
  /\ task_start = ZeroTime

(* one identifier goes through readSSID's loop body *)
AggCapture ==
  /\ Len(added) < MaxCaptured
  /\ \E ssid \in {NetA, NetB} :
       LET r == readLine(ssid_queue, ssid, clock)
       IN /\ ssid_queue' = r.queue
          /\ added' = added \o r.calls
  /\ UNCHANGED <<history, popped, clock, ticks>>
  /\ UNCHANGED aggFrame

(* storeSSIDs() on the non-empty queue *)
AggStore ==
  /\ ssid_queue.empty = 0
  /\ LET r == storeSSIDs(ssid_queue, history, clock)
     IN /\ ssid_queue' = r.queue
        /\ history' = r.history
        /\ popped' = Append(popped, <<r.ssid, r.timestamp>>)
  /\ UNCHANGED <<added, clock, ticks>>
  /\ UNCHANGED aggFrame

AggTick ==
  /\ ticks < MaxTicks
  /\ clock' = ClockStep(clock)
  /\ ticks' = ticks + 1
  /\ UNCHANGED <<ssid_queue, history, added, popped>>
  /\ UNCHANGED aggFrame

AggNext == AggCapture \/ AggStore \/ AggTick

AggSpec == AggInit /\ [][AggNext]_vars

(******************************** properties *******************************)

(* entries in the queue: enqueued and not yet dequeued *)
Occupied == Len(added) - Len(popped)

(* the slot k places behind head *)
SlotAt(k) == (ssid_queue.head + k) % BUFFER_SIZE

(* C1: the pairs queuePop has returned are, in order, the first pairs      *)
(* passed to queueAdd: nothing is reordered, duplicated or lost            *)
C1_Fifo ==
  /\ Len(popped) <= Len(added)
  /\ \A i \in 1..Len(popped) : popped[i] = added[i]

(* more entries were dequeued than the buffer has slots (head has wrapped) *)
(* and the dequeued pairs differ among themselves                          *)
C1_Witness ==
  /\ Len(popped) > BUFFER_SIZE
  /\ popped[1] # popped[2]
  /\ popped[Len(popped)] = added[Len(popped)]

(* C2: the queue never holds more than BUFFER_SIZE entries, queueAdd is    *)
(* never executed on a full queue, and every entry not yet dequeued is     *)
(* still in its slot                                                       *)
C2_Capacity ==
  /\ Occupied >= 0
  /\ Occupied <= BUFFER_SIZE
  /\ \A k \in 1..Occupied :
       /\ ssid_queue.ssid_buffer[SlotAt(k - 1)] = added[Len(popped) + k][1]
       /\ ssid_queue.timestamp_buffer[SlotAt(k - 1)] = added[Len(popped) + k][2]

(* the queue is full and readSSID has read a valid line without adding it *)
C2_Witness ==
  /\ Occupied = BUFFER_SIZE
  /\ pcRead = "fgets"
  /\ lines = <<>>
  /\ ~StartsWithX00(cycle.out[Len(cycle.out)])

(* the valid (non-sentinel) lines of a scanner output, in scanner order *)
Valid(out) == SelectSeq(out, LAMBDA l : ~StartsWithX00(l))

(* the lines fgets has returned so far in the readSSID call in progress *)
LinesRead == SubSeq(cycle.out, 1, Len(cycle.out) - Len(lines))

(* the identifiers enqueued so far by the readSSID call in progress *)
CycleAdded == [i \in 1..(Len(added) - cycle.added0) |-> added[cycle.added0 + i][1]]

(* readSSID is being executed and popen succeeded *)
Scanning == cycle.phase = "scan" /\ ~cycle.failed

(* readSSID has read every line (fgets returned NULL) *)
ScanDone == Scanning /\ pcRead = "unlock"

(* C3: the history holds at most one entry per distinct identifier: an     *)
(* identifier dequeued with the timestamp recorded last for it leaves the  *)
(* history unchanged                                                       *)
C3_OneEntryPerIdentifier ==
  \A i, j \in 1..history.ssid_num : history.ssids[i] = history.ssids[j] => i = j

(* C4 as claimed: no valid identifier a scan returned is discarded, each   *)
(* is enqueued: when readSSID returns, the identifiers it enqueued are all *)
(* the valid lines of the scanner output                                   *)
C4_NothingDiscarded == ScanDone => CycleAdded = Valid(cycle.out)

(* C4 as amended: READ_TASK is suspended on a full queue only before it    *)
(* calls readSSID, which is never entered with the queue full; inside      *)
(* readSSID a valid line is enqueued exactly when the queue is not full at *)
(* the moment it is read, and is discarded otherwise                       *)
C4_SkipsOnlyWhenFull ==
  /\ [](pcRead = "fgets" /\ lines = cycle.out => ssid_queue.full = 0)
  /\ [][lines # <<>> /\ lines' = Tail(lines) =>
          IF ~StartsWithX00(Head(lines)) /\ Occupied < BUFFER_SIZE
            THEN /\ Len(added') = Len(added) + 1
                 /\ added'[Len(added')][1] = Head(lines)
            ELSE added' = added]_vars

(* readSSID has returned and discarded a valid line because the queue was  *)
(* full                                                                    *)
C4_Witness ==
  /\ ScanDone
  /\ Occupied = BUFFER_SIZE
  /\ Len(CycleAdded) < Len(Valid(cycle.out))

(* C5: a readSSID call that starts with `occupied` entries in the queue    *)
(* enqueues the first min(n, BUFFER_SIZE - occupied) of the n valid        *)
(* identifiers read so far, never blocks, and no entry is dequeued while   *)
(* it runs                                                                 *)
C5_EnqueuesWhatFits ==
  Scanning =>
    LET occupied == cycle.added0 - cycle.popped0
        valid == Valid(LinesRead)
        fits == IF Len(valid) < BUFFER_SIZE - occupied
                  THEN Len(valid) ELSE BUFFER_SIZE - occupied
    IN /\ CycleAdded = SubSeq(valid, 1, fits)
       /\ Len(popped) = cycle.popped0
       /\ pcRead \in {"fgets", "unlock"}
       /\ mutex = "READ_TASK"

(* readSSID has returned after starting with a partly filled queue and     *)
(* reading more valid lines than there were free slots                     *)
C5_Witness ==
  /\ ScanDone
  /\ cycle.added0 - cycle.popped0 > 0
  /\ Len(Valid(cycle.out)) > BUFFER_SIZE - (cycle.added0 - cycle.popped0)
  /\ Len(CycleAdded) > 0

(* C6 as stated: under fair scheduling of both tasks a non-empty queue      *)
(* always has its oldest entry dequeued and aggregated by storeSSIDs (the  *)
(* count of dequeued entries grows by one at a time, so its parity changes *)
(* exactly when one is dequeued; with the FIFO order every entry is        *)
(* reached), also while READ_TASK is suspended on not_full, and a          *)
(* READ_TASK suspended on not_full eventually gets to call readSSID        *)
C6_EventuallyDrained ==
  /\ \A b \in {0, 1} :
       (Occupied > 0 /\ Len(popped) % 2 = b) ~> (Len(popped) % 2 # b)
  /\ (pcRead = "wait") ~> (pcRead \in {"fgets", "unlock"})

(* the producer period in half-seconds *)
PeriodHalves == read_cycle_time \div HalfSec

(* C7 as stated: two consecutive scan phases that each took less than the  *)
(* period start at least one period apart                                  *)
C7_SeparatedByPeriod ==
  ( /\ Len(scan_log) = 2
    /\ scan_log[2].n = scan_log[1].n + 1
    /\ \A i \in 1..2 :
         /\ scan_log[i].end >= 0
         /\ scan_log[i].end - scan_log[i].start < PeriodHalves )
  => scan_log[2].start - scan_log[1].start >= PeriodHalves

(* C7: the deadline READ_TASK sleeps to is the clock reading it            *)
(* synchronized to plus one period per cycle started, whatever the scans   *)
(* took, and the scan phase of cycle k never starts before that reading    *)
(* plus k-1 periods                                                        *)
C7_NotBeforeDeadline ==
  /\ pcRead \notin {"idle", "clock_gettime"} =>
       Halves(read_task_timer) = Halves(task_start) + cycles * PeriodHalves
  /\ \A i \in 1..Len(scan_log) :
       scan_log[i].start >=
         Halves(task_start) + (scan_log[i].n - 1) * PeriodHalves

(* two consecutive scans completed in less than the period each, the       *)
(* second started less than a period after the first                       *)
C7_Witness ==
  /\ Len(scan_log) = 2
  /\ PeriodHalves > 0
  /\ \A i \in 1..2 :
       /\ scan_log[i].end >= 0
       /\ scan_log[i].end - scan_log[i].start < PeriodHalves
  /\ scan_log[2].start - scan_log[1].start < PeriodHalves

(* C8 as stated: a process started with an argument count other than one   *)
(* argument exits with the argument-count code and has performed no        *)
(* real-time setup step                                                    *)
C8_ExitsBeforeSetup ==
  (argc # 2 /\ pcMain = "exited") =>
    (exit_code = <<EXIT_ARGC>> /\ rt_setup = {})

(* every history entry has as many latencies as timestamps, none negative *)
C9_Shape ==
  /\ Len(history.ssids) = history.ssid_num
  /\ Len(history.num_timestamps) = history.ssid_num
  /\ Len(history.timestamps) = history.ssid_num
  /\ Len(history.latencies) = history.ssid_num
  /\ \A i \in 1..history.ssid_num :
       /\ Len(history.timestamps[i]) = history.num_timestamps[i]
       /\ Len(history.latencies[i]) = history.num_timestamps[i]
       /\ \A k \in 1..Len(history.latencies[i]) : history.latencies[i][k] >= 0

(* a step that dequeues records the capture timestamp of the dequeued      *)
(* entry and, at the same position, the reading of the clock minus it      *)
C9_PopStep ==
  popped' # popped =>
    LET p == added[Len(popped')]
        reading == getCurrentTimestamp(clock)
    IN \E i \in 1..history'.ssid_num :
         LET k == Len(history'.timestamps[i])
         IN /\ history'.ssids[i] = p[1]
            /\ Len(history'.latencies[i]) = k
            /\ history'.timestamps[i][k] = p[2]
            /\ history'.latencies[i][k] = reading - p[2]
            /\ IF i <= history.ssid_num
                 THEN /\ history'.ssid_num = history.ssid_num
                      /\ SubSeq(history'.timestamps[i], 1, k - 1)
                           = history.timestamps[i]
                      /\ SubSeq(history'.latencies[i], 1, k - 1)
                           = history.latencies[i]
                 ELSE /\ history'.ssid_num = history.ssid_num + 1
                      /\ k = 1
            /\ \A j \in 1..history.ssid_num :
                 j # i => /\ history'.timestamps[j] = history.timestamps[j]
                          /\ history'.latencies[j] = history.latencies[j]

(* C9: the timestamp and latency sequences of an identifier always have    *)
(* equal length, each dequeued entry adds its capture timestamp and, at    *)
(* the same position, the clock reading at aggregation minus that          *)
(* timestamp, and no latency is negative (the clock only advances)         *)
C9_LatencyPerTimestamp == []C9_Shape /\ [][C9_PopStep]_vars

(* an identifier seen twice, one of its latencies positive *)
C9_Witness ==
  \E i \in 1..history.ssid_num :
    /\ Len(history.latencies[i]) >= 2
    /\ \E k \in 1..Len(history.latencies[i]) : history.latencies[i][k] > 0

(* the steps of a cycle whose popen returned NULL *)
C10_FailedCycleStep ==
  /\ (cycle'.failed /\ ~cycle.failed) =>
       /\ UNCHANGED <<ssid_queue, history>>
       /\ pcRead' = "unlock"
       /\ mutex' = "READ_TASK"
  /\ cycle.failed =>
       /\ UNCHANGED <<ssid_queue, history>>
       /\ pcRead = "unlock"
       /\ mutex = "READ_TASK"
       /\ pcRead' # pcRead => (pcRead' = "signal" /\ mutex' = "free")
  /\ (cycle.prev_failed /\ pcRead = "signal" /\ pcRead' # pcRead) =>
       /\ UNCHANGED <<ssid_queue, history>>
       /\ pcRead' = "clock_nanosleep"
  /\ (cycle.prev_failed /\ Scanning /\ pcRead = "fgets" /\ pcRead' = "unlock") =>
       LET valid == Valid(cycle.out)
           free == BUFFER_SIZE - (cycle.added0 - cycle.popped0)
           fits == IF Len(valid) < free THEN Len(valid) ELSE free
       IN CycleAdded = SubSeq(valid, 1, fits)

(* C10: when popen returns NULL the queue and the history stay as they     *)
(* were until READ_TASK has unlocked the mutex, signalled not_empty and    *)
(* gone to its deadline sleep, and the next cycle whose popen succeeds     *)
(* enqueues the valid lines that fit                                       *)
C10_FailedScanSkipped == [][C10_FailedCycleStep]_vars

(* a scan has enqueued after the cycle before it failed *)
C10_Witness ==
  /\ cycle.prev_failed
  /\ ScanDone
  /\ Len(CycleAdded) > 0

(* the identifiers of a sequence of pairs, each once, in first-seen order *)
RECURSIVE FirstSeen(_)
FirstSeen(seq) ==
  IF seq = <<>> THEN <<>>
  ELSE LET front == FirstSeen(SubSeq(seq, 1, Len(seq) - 1))
           id == seq[Len(seq)][1]
       IN IF \E i \in 1..Len(front) : front[i] = id
            THEN front ELSE Append(front, id)

(* the timestamps a sequence of pairs holds for one identifier, in order *)
RECURSIVE TimestampsOf(_, _)
TimestampsOf(seq, id) ==
  IF seq = <<>> THEN <<>>
  ELSE LET front == TimestampsOf(SubSeq(seq, 1, Len(seq) - 1), id)
       IN IF seq[Len(seq)][1] = id
            THEN Append(front, seq[Len(seq)][2]) ELSE front

(* no pair repeats the timestamp of the pair before it of the same         *)
(* identifier                                                              *)
NoExactRepeat(seq) ==
  \A i \in 1..Len(seq) :
    LET before == TimestampsOf(SubSeq(seq, 1, i - 1), seq[i][1])
    IN before # <<>> => before[Len(before)] # seq[i][2]

(* C11: when no dequeued pair repeats the last recorded timestamp of its   *)
(* identifier, the history has one entry per distinct dequeued identifier, *)
(* in first-seen order, holding that identifier's dequeued timestamps in   *)
(* dequeue order                                                           *)
C11_HistoryOfSequence ==
  NoExactRepeat(popped) =>
    /\ history.ssids = FirstSeen(popped)
    /\ history.ssid_num = Len(history.ssids)
    /\ \A i \in 1..history.ssid_num :
         /\ history.timestamps[i] = TimestampsOf(popped, history.ssids[i])
         /\ history.num_timestamps[i] = Len(history.timestamps[i])

(* NetA, NetA at a later reading, then NetB have been dequeued *)
C11_Witness ==
  /\ Len(popped) = 3
  /\ popped[1][1] = NetA /\ popped[2][1] = NetA /\ popped[3][1] = NetB
  /\ popped[1][2] # popped[2][2]
  /\ history.ssids = <<NetA, NetB>>
  /\ Len(history.timestamps[1]) = 2

(* INIT_TASK has set the queue up *)
Initialised == pcMain \in {"create_read", "create_store", "join"}

(* C12: once INIT_TASK has set the queue up, between any two queue         *)
(* operations full and empty are never both set, head = tail exactly when  *)
(* one of them is set, full is set exactly with 32 entries in the queue    *)
(* and empty exactly with none                                             *)
C12_Flags ==
  Initialised =>
    /\ ssid_queue.full \in {0, 1}
    /\ ssid_queue.empty \in {0, 1}
    /\ ~(ssid_queue.full = 1 /\ ssid_queue.empty = 1)
    /\ (ssid_queue.head = ssid_queue.tail)
         <=> (ssid_queue.full = 1 \/ ssid_queue.empty = 1)
    /\ (ssid_queue.full = 1) <=> (Occupied = BUFFER_SIZE)
    /\ (ssid_queue.empty = 1) <=> (Occupied = 0)

(* the queue is full again after entries were dequeued and others enqueued *)
C12_Witness ==
  /\ ssid_queue.full = 1
  /\ ssid_queue.head = ssid_queue.tail
  /\ ssid_queue.head # 0

(* the exit status the parent process sees: the low 8 bits of exit()'s     *)
(* argument                                                                *)
ExitStatus(code) == code % 256

(* C13: after a failed mlockall or sched_setaffinity the process has       *)
(* exited with the queue still as static storage left it and neither task  *)
(* created, and the three exit codes are non-zero and pairwise distinct,   *)
(* also as exit statuses                                                   *)
C13_SetupFailureExits ==
  /\ exit_code = <<EXIT_MLOCK>> =>
       /\ pcMain = "exited" /\ rt_setup = {}
       /\ ssid_queue = ZeroQueue /\ pcRead = "idle" /\ pcStore = "idle"
  /\ exit_code = <<EXIT_AFFINITY>> =>
       /\ pcMain = "exited" /\ rt_setup = {"mlockall", "prefaultStack"}
       /\ ssid_queue = ZeroQueue /\ pcRead = "idle" /\ pcStore = "idle"
  /\ pcMain = "exited" =>
       /\ exit_code \in {<<EXIT_MLOCK>>, <<EXIT_AFFINITY>>, <<EXIT_ARGC>>}
       /\ ExitStatus(exit_code[1]) # 0
  /\ \A a, b \in {EXIT_MLOCK, EXIT_AFFINITY, EXIT_ARGC} :
       a # b => ExitStatus(a) # ExitStatus(b)

(* sched_setaffinity has failed after mlockall succeeded *)
C13_Witness ==
  /\ exit_code = <<EXIT_AFFINITY>>
  /\ "mlockall" \in rt_setup

(* each task is at a place where it uses the queue only while it holds the *)
(* mutex                                                                   *)
C14_HoldsMutex ==
  /\ pcRead \in {"check", "fgets", "unlock"} => mutex = "READ_TASK"
  /\ pcStore \in {"check", "unlock"} => mutex = "STORE_TASK"
  /\ cycle.phase = "scan" => mutex = "READ_TASK"

(* a step that changes the queue is a step of the task holding the mutex,  *)
(* which keeps it, and no step dequeues during a scan                      *)
C14_QueueStep ==
  /\ (Initialised /\ ssid_queue' # ssid_queue) =>
       \/ /\ pcRead = "fgets" /\ added' # added /\ popped' = popped
          /\ mutex = "READ_TASK" /\ mutex' = "READ_TASK"
       \/ /\ pcStore = "check" /\ popped' # popped /\ added' = added
          /\ mutex = "STORE_TASK" /\ mutex' = "STORE_TASK"
  /\ cycle.phase = "scan" => popped' = popped
  /\ (cycle.phase = "scan" /\ cycle'.phase = "scan") => mutex' = "READ_TASK"

(* C14: the queue is used only by the task that holds the mutex, and       *)
(* READ_TASK holds it from before popen until after the last queueAdd of   *)
(* the cycle, so that no queuePop falls between two queueAdd calls of one  *)
(* cycle                                                                   *)
C14_MutualExclusion == []C14_HoldsMutex /\ [][C14_QueueStep]_vars

(* STORE_TASK waits for the mutex between two queueAdd calls of a scan     *)
(* while the queue holds entries                                           *)
C14_Witness ==
  /\ Scanning
  /\ pcRead = "fgets"
  /\ lines # <<>>
  /\ Len(CycleAdded) > 0
  /\ pcStore \in {"lock", "relock"}

(* the number of timestamps the history holds: one per aggregation *)
RECURSIVE SumOf(_)
SumOf(seq) == IF seq = <<>> THEN 0 ELSE Head(seq) + SumOf(Tail(seq))

(* C15: every dequeue comes with one aggregation, writeToFile has been     *)
(* called once per dequeue, less the one of the cycle STORE_TASK is in,    *)
(* and it is called with the mutex released by STORE_TASK                  *)
C15_OneWritePerDequeue ==
  /\ SumOf(history.num_timestamps) = Len(popped)
  /\ write_attempts =
       IF pcStore \in {"unlock", "signal", "writeToFile"}
         THEN Len(popped) - 1 ELSE Len(popped)
  /\ pcStore \in {"signal", "writeToFile"} => mutex # "STORE_TASK"

(* STORE_TASK is about to call writeToFile for its third entry while       *)
(* READ_TASK holds the mutex                                               *)
C15_Witness ==
  /\ pcStore = "writeToFile"
  /\ write_attempts = 2
  /\ Len(popped) = 3
  /\ mutex = "READ_TASK"

(* the report holds every entry of the history with all its pairs *)
ReportIsHistory(rep, h) ==
  /\ Len(rep) = h.ssid_num
  /\ \A i \in 1..Len(rep) :
       /\ rep[i].ssid = h.ssids[i]
       /\ Len(rep[i].rows) = h.num_timestamps[i]
       /\ \A j \in 1..Len(rep[i].rows) :
            rep[i].rows[j] = <<h.timestamps[i][j], h.latencies[i][j]>>

(* the number of timestamp/latency pairs in the report *)
RowsIn(rep) == SumOf([i \in 1..Len(rep) |-> Len(rep[i].rows)])

(* a call of writeToFile: one that cannot open the file changes neither    *)
(* the history nor the queue and STORE_TASK goes on to its next cycle; one *)
(* that can writes the whole history, a pair for every entry dequeued so   *)
(* far                                                                     *)
C16_WriteStep ==
  write_attempts' # write_attempts =>
    /\ UNCHANGED <<history, ssid_queue>>
    /\ pcStore = "writeToFile" /\ pcStore' = "lock"
    /\ IF last_failed'
         THEN report' = report
         ELSE /\ ReportIsHistory(report', history)
              /\ RowsIn(report') = Len(popped)

(* C16: a writeToFile that cannot open ssids.txt leaves the history and    *)
(* the queue as they were and STORE_TASK continues its loop, and the next  *)
(* writeToFile that can open it writes the complete history, with what was *)
(* aggregated since the failure                                            *)
C16_WriteFailureSkipped == [][C16_WriteStep]_vars

(* ssids.txt has been written in full after an earlier call could not open *)
(* it, with several entries in the history                                 *)
C16_Witness ==
  /\ write_fails > 0
  /\ ~last_failed
  /\ pcStore = "lock"
  /\ history.ssid_num >= 2
  /\ ReportIsHistory(report, history)

IsPrefix(s, t) == Len(s) <= Len(t) /\ SubSeq(t, 1, Len(s)) = s

(* a step that moves READ_TASK on, reads a line or enqueues *)
ProducerStep ==
  \/ pcRead' # pcRead
  \/ lines' # lines
  \/ added' # added
  \/ read_task_timer' # read_task_timer

(* the history after a step continues the history before it *)
C17_HistoryStep ==
  /\ history.ssid_num <= history'.ssid_num
  /\ IsPrefix(history.ssids, history'.ssids)
  /\ \A i \in 1..history.ssid_num :
       /\ IsPrefix(history.timestamps[i], history'.timestamps[i])
       /\ IsPrefix(history.latencies[i], history'.latencies[i])
       /\ history.num_timestamps[i] <= history'.num_timestamps[i]
  /\ ProducerStep => history' = history

(* C17: across every step the list of history entries before it is a       *)
(* prefix of the list after it, with the same identifiers, each entry's    *)
(* timestamps and latencies before it are prefixes of those after it, and  *)
(* the steps of READ_TASK leave the history as it is                       *)
C17_AppendOnly == [][C17_HistoryStep]_vars

(* an entry has got a second timestamp after another entry was created     *)
C17_Witness ==
  /\ history.ssid_num >= 2
  /\ \E i \in 1..(history.ssid_num - 1) : history.num_timestamps[i] >= 2

(* C18: after k iterations of READ_TASK have started, the deadline is the  *)
(* clock reading taken at task start plus k periods, seconds carried out   *)
(* of a nanosecond field that stays below one second, whatever the time    *)
(* at which the iterations ran                                             *)
C18_DeadlineAnchored ==
  pcRead \notin {"idle", "clock_gettime"} =>
    /\ read_task_timer.nsec >= 0
    /\ read_task_timer.nsec < NSEC_PER_SEC
    /\ read_task_timer.nsec = task_start.nsec
    /\ read_task_timer.sec =
         task_start.sec + cycles * (read_cycle_time \div NSEC_PER_SEC)

(* the second iteration has started with a period of one second, after a   *)
(* first scan that started late                                            *)
C18_Witness ==
  /\ cycles = 2
  /\ read_cycle_time = NSEC_PER_SEC
  /\ read_task_timer.sec = task_start.sec + 2
  /\ scan_log # <<>>
  /\ scan_log[1].start > Halves(task_start)

(* a task is at a call that can block on the mutex or on a condition *)
Blockable(pc) == pc \in {"lock", "relock", "wait"}

(* C19: the two tasks are never both suspended on their conditions; a task *)
(* suspended on a condition that has come true has its signal still ahead, *)
(* from the other task that has released or is about to release the       *)
(* mutex; and whenever both tasks are at a call that can block on the      *)
(* mutex or on a condition, one of them can go on                          *)
C19_NoDeadlock ==
  /\ ~(pcRead = "wait" /\ pcStore = "wait")
  /\ (pcStore = "wait" /\ ssid_queue.empty = 0) =>
       pcRead \in {"fgets", "unlock", "signal"}
  /\ (pcRead = "wait" /\ ssid_queue.full = 0) =>
       pcStore \in {"unlock", "signal"}
  /\ (Blockable(pcRead) /\ Blockable(pcStore)) =>
       (ENABLED ReadNext \/ ENABLED StoreNext)

(* READ_TASK is suspended on not_full, STORE_TASK has dequeued and         *)
(* unlocked and has not signalled yet                                      *)
C19_Witness ==
  /\ pcRead = "wait"
  /\ ssid_queue.full = 0
  /\ pcStore = "signal"

(* a step that dequeues finds an entry in the queue, under the mutex, and  *)
(* returns the oldest one                                                  *)
C20_PopStep ==
  popped' # popped =>
    /\ ssid_queue.empty = 0
    /\ Occupied > 0
    /\ mutex = "STORE_TASK"
    /\ Len(popped') = Len(popped) + 1
    /\ popped'[Len(popped')] = added[Len(popped')]

(* C20: queuePop runs only on a queue that holds an entry: STORE_TASK,     *)
(* signalled also by cycles that enqueued nothing, tests the empty flag    *)
(* under the mutex each time and waits again while it is set               *)
C20_NeverPopsEmpty ==
  /\ [][C20_PopStep]_vars
  /\ [][(pcStore = "check" /\ ssid_queue.empty # 0 /\ pcStore' # pcStore)
          => (pcStore' = "wait" /\ popped' = popped)]_vars

(* after a cycle whose popen failed READ_TASK has signalled, and           *)
(* STORE_TASK, which has dequeued before, tests the flag of the empty      *)
(* queue                                                                   *)
C20_Witness ==
  /\ cycle.prev_failed
  /\ pcRead = "clock_nanosleep"
  /\ pcStore = "check"
  /\ ssid_queue.empty = 1
  /\ Len(popped) > 0

====
